---- MODULE Spec2Model ----
(***************************************************************************)
(* Carteira digital: CarteiraService over CarteiraRepository.              *)
(*                                                                         *)
(* The database tables are the shared state.  Every repository method      *)
(* opens its own connection (`with get_connection() as conn`), so a        *)
(* service method is a sequence of separate transactions; each repository  *)
(* call is one atomic step of the request handler that runs it, and        *)
(* handlers of concurrent requests interleave between those steps.  Reads  *)
(* of rows that never change once written (a wallet's existence and key    *)
(* hash, the currency table) are taken in the same step as the read or     *)
(* write that follows them; reads of a wallet's status and of a balance    *)
(* are steps of their own, apart from the write that relies on them.       *)
(*                                                                         *)
(* Money is counted in hundredths (valor 100 = 1.00), so that the          *)
(* percentage fees of the amounts used here are exact.                     *)
(***************************************************************************)
EXTENDS Integers, Sequences, FiniteSets, TLC

\* ---------------------------------------------------------------- bounds
\* Rows the three ledger tables may hold together (requests in flight count):
\* MaxRegistros with concurrent handlers, MaxEntradas with one handler.
MaxRegistros == 3
MaxEntradas == 2

\* ------------------------------------------------------- program constants
\* Fee rates in percent: defaults of TAXA_SAQUE_PERCENTUAL (0.01),
\* TAXA_CONVERSAO_PERCENTUAL (0.02) and TAXA_TRANSFERENCIA_PERCENTUAL (0.01).
TaxaSaquePercentual == 1
TaxaConversaoPercentual == 2
TaxaTransferenciaPercentual == 1

\* ------------------------------------------------------------ input domains
Procs == {"p1", "p2"}
Enderecos == {"w1", "w2"}
\* Table moeda: codigo -> id_moeda.  "XXX" is a code the table does not hold.
Moeda == [c \in {"BTC", "USD"} |-> IF c = "BTC" THEN 1 ELSE 2]
Codigos == {"BTC", "XXX"}
\* Currency pairs of conversion requests.
Pares == {<<"BTC", "USD">>, <<"BTC", "BTC">>, <<"BTC", "XXX">>, <<"XXX", "USD">>}
\* Amounts of deposit requests, and of requests that debit.
Valores == {-100, 100, 200}
ValoresDebito == {-100, 100}
\* Spot prices the quote service may answer, in hundredths (50 = 0.50).
Cotacoes == {50, 200}
\* The ways the quote request fails: httpx.get raises (timeout, transport),
\* the status is not 200, the body is not {"data": {"amount": <number>}}.
FalhasCotacao == {"timeout", "status", "malformado"}
\* Private keys: ChaveDe[e] is the key secrets.token_hex drew for wallet e.
ChaveDe == [e \in Enderecos |-> IF e = "w1" THEN "k1" ELSE "k2"]
Chaves == {"k1", "k2"}

Nulo == "-"

VARIABLES
    carteira,        \* table carteira: endereco -> [status, hash_chave_privada]
    saldo_carteira,  \* table saldo_carteira: <<endereco, id_moeda>> -> saldo
    deposito_saque,  \* table deposito_saque, in insertion order
    conversao,       \* table conversao, in insertion order
    transferencia,   \* table transferencia, in insertion order
    pc,              \* position of each request handler
    dados,           \* the request each handler is serving
    local,           \* the handler's local variables
    resultado        \* what the handler returned or raised

db == <<carteira, saldo_carteira, deposito_saque, conversao, transferencia>>
vars == <<carteira, saldo_carteira, deposito_saque, conversao, transferencia,
          pc, dados, local, resultado>>

\* ------------------------------------------------------------ pure helpers
\* hashlib.sha256(chave.encode()).hexdigest(): one-way and collision free.
sha256(chave) == <<"sha256", chave>>

\* valor * taxa_percentual, the rate given in percent.
taxa_valor(valor, percentual) == (valor * percentual) \div 100

\* valor * cotacao, the price given in hundredths.
valor_destino(valor, cotacao) == (valor * cotacao) \div 100

\* buscar_id_moeda: the id of a currency code, 0 standing for None.
buscar_id_moeda(codigo) == IF codigo \in DOMAIN Moeda THEN Moeda[codigo] ELSE 0

\* buscar_saldo_especifico: the stored balance, 0.0 when the row is missing.
buscar_saldo_especifico(saldos, endereco, id_moeda) ==
    IF <<endereco, id_moeda>> \in DOMAIN saldos
    THEN saldos[<<endereco, id_moeda>>] ELSE 0

\* Mutant of upsert_saldo: ON DUPLICATE KEY UPDATE saldo = :valor.
upsert_saldo_sobrescreve(saldos, endereco, id_moeda, valor) ==
    IF <<endereco, id_moeda>> \in DOMAIN saldos
    THEN [saldos EXCEPT ![<<endereco, id_moeda>>] = valor]
    ELSE saldos @@ (<<endereco, id_moeda>> :> valor)

\* INSERT INTO saldo_carteira ... ON DUPLICATE KEY UPDATE saldo = saldo + :valor
upsert_saldo(saldos, endereco, id_moeda, valor) ==
    IF <<endereco, id_moeda>> \in DOMAIN saldos
    THEN [saldos EXCEPT ![<<endereco, id_moeda>>] = @ + valor]
    ELSE saldos @@ (<<endereco, id_moeda>> :> valor)

\* UPDATE saldo_carteira SET saldo = saldo - :total WHERE endereco, id_moeda:
\* changes the row if there is one, and nothing otherwise.
update_saldo(saldos, endereco, id_moeda, total) ==
    IF <<endereco, id_moeda>> \in DOMAIN saldos
    THEN [saldos EXCEPT ![<<endereco, id_moeda>>] = @ - total]
    ELSE saldos

\* ------------------------------------------------------- records and results
SemDados == [op |-> Nulo, endereco |-> Nulo, codigo_moeda |-> Nulo,
             moeda_destino |-> Nulo, endereco_destino |-> Nulo,
             valor |-> 0, chave_privada |-> Nulo]
SemLocal == [id_moeda |-> 0, id_destino |-> 0, saldo_atual |-> 0,
             cotacao |-> 0, id |-> 0, resposta |-> Nulo]
SemResultado == [tipo |-> Nulo, erro |-> Nulo, id |-> 0, valor |-> 0,
                 taxa |-> 0, saldo_atual |-> 0, valor_recebido |-> 0,
                 cotacao |-> 0, status |-> Nulo, chave_privada |-> Nulo]

Erro(mensagem) == [SemResultado EXCEPT !.tipo = "erro", !.erro = mensagem]

\* The ValueError messages of the service.
CarteiraNaoEncontrada == "Carteira nao encontrada"
OrigemNaoEncontrada == "Carteira de origem nao encontrada"
DestinoNaoEncontrado == "Carteira de destino nao encontrada"
ChaveInvalida == "Chave privada invalida!"
MoedaInvalida == "Moeda invalida"
SaldoInsuficiente == "Saldo insuficiente"
ErroCotacao == "Erro ao obter cotacao."
PropriaCarteira == "Nao e possivel transferir para a propria carteira."
DestinoBloqueado == "Carteira de destino esta bloqueada/inativa"

Registros == Len(deposito_saque) + Len(conversao) + Len(transferencia)
EmCurso == Cardinality({p \in Procs : pc[p] \notin {"livre", "fim"}})

\* A handler leaves with a result: raise or return.
Termina(p, r) ==
    /\ pc' = [pc EXCEPT ![p] = "fim"]
    /\ resultado' = [resultado EXCEPT ![p] = r]

\* A table with no rows.
Vazia == [k \in {} |-> Nulo]

Init ==
    /\ carteira = Vazia
    /\ saldo_carteira = Vazia
    /\ deposito_saque = << >>
    /\ conversao = << >>
    /\ transferencia = << >>
    /\ pc = [p \in Procs |-> "livre"]
    /\ dados = [p \in Procs |-> SemDados]
    /\ local = [p \in Procs |-> SemLocal]
    /\ resultado = [p \in Procs |-> SemResultado]

\* ------------------------------------------------------------ repository
\* Column status of a new row of carteira (the column's default).
StatusInicial == "ATIVA"

\* criar: INSERT INTO carteira (endereco_carteira, hash_chave_privada).
criar(tabela, endereco, chave_privada) ==
    tabela @@ (endereco :> [status |-> StatusInicial,
                            hash_chave_privada |-> sha256(chave_privada)])

\* Mutant of atualizar_status: the update toggles a status already set.
atualizar_status_alterna(tabela, endereco, status) ==
    IF endereco \in DOMAIN tabela
    THEN [tabela EXCEPT ![endereco].status =
              IF @ = status THEN StatusInicial ELSE status]
    ELSE tabela

\* atualizar_status: UPDATE carteira SET status = :status WHERE endereco.
atualizar_status(tabela, endereco, status) ==
    IF endereco \in DOMAIN tabela
    THEN [tabela EXCEPT ![endereco].status = status]
    ELSE tabela

\* realizar_deposito: one transaction, movement row then balance upsert.
realizar_deposito(endereco, id_moeda, valor) ==
    /\ deposito_saque' = Append(deposito_saque,
           [id |-> Len(deposito_saque) + 1, endereco |-> endereco,
            id_moeda |-> id_moeda, tipo |-> "DEPOSITO", valor |-> valor,
            taxa_valor |-> 0])
    /\ saldo_carteira' = upsert_saldo(saldo_carteira, endereco, id_moeda, valor)
    /\ UNCHANGED <<carteira, conversao, transferencia>>

\* realizar_saque: one transaction, movement row then balance decrement.
realizar_saque(endereco, id_moeda, valor, taxa) ==
    /\ deposito_saque' = Append(deposito_saque,
           [id |-> Len(deposito_saque) + 1, endereco |-> endereco,
            id_moeda |-> id_moeda, tipo |-> "SAQUE", valor |-> valor,
            taxa_valor |-> taxa])
    /\ saldo_carteira' = update_saldo(saldo_carteira, endereco, id_moeda, valor + taxa)
    /\ UNCHANGED <<carteira, conversao, transferencia>>

\* realizar_conversao: one transaction, conversion row, debit, credit upsert.
realizar_conversao(endereco, id_origem, id_destino, valor_origem, valor_dest, taxa, taxa_percentual, cotacao) ==
    /\ conversao' = Append(conversao,
           [id |-> Len(conversao) + 1, endereco |-> endereco,
            id_moeda_origem |-> id_origem, id_moeda_destino |-> id_destino,
            valor_origem |-> valor_origem, valor_destino |-> valor_dest,
            taxa_percentual |-> taxa_percentual, taxa_valor |-> taxa,
            cotacao_utilizada |-> cotacao])
    /\ saldo_carteira' = upsert_saldo(
           update_saldo(saldo_carteira, endereco, id_origem, valor_origem + taxa),
           endereco, id_destino, valor_dest)
    /\ UNCHANGED <<carteira, deposito_saque, transferencia>>

\* realizar_transferencia: one transaction, transfer row, debit, credit upsert.
realizar_transferencia(end_origem, end_destino, id_moeda, valor, taxa) ==
    /\ transferencia' = Append(transferencia,
           [id |-> Len(transferencia) + 1, endereco_origem |-> end_origem,
            endereco_destino |-> end_destino, id_moeda |-> id_moeda,
            valor |-> valor, taxa_valor |-> taxa])
    /\ saldo_carteira' = upsert_saldo(
           update_saldo(saldo_carteira, end_origem, id_moeda, valor + taxa),
           end_destino, id_moeda, valor)
    /\ UNCHANGED <<carteira, deposito_saque, conversao>>

\* --------------------------------------------------------------- service
\* A free handler takes request d.
Recebe(p, d) ==
    /\ pc[p] = "livre"
    /\ dados' = [dados EXCEPT ![p] = d]

\* The ledgers have room for the row of one more request.
Cabe(max) == Registros + EmCurso < max

\* Mutant of chave_confere: the key of any wallet of the table is accepted.
chave_confere_qualquer(linha, chave_privada) ==
    \E e \in DOMAIN carteira :
        carteira[e].hash_chave_privada = sha256(chave_privada)

\* The key sent with the request is the key of the wallet row.
chave_confere(linha, chave_privada) ==
    linha.hash_chave_privada = sha256(chave_privada)

\* Mutant of propria_carteira: the test is missing.
propria_carteira_ausente(endereco_origem, endereco_destino) == FALSE

\* The self-transfer test: `if endereco_origem == dados.endereco_destino`.
propria_carteira(endereco_origem, endereco_destino) ==
    endereco_origem = endereco_destino

\* The guard of every debit: `if saldo < total: raise`.
saldo_suficiente(saldo, total) == ~(saldo < total)

\* criar_carteira: a fresh random address and key, one transaction.
criar_carteira(p, e) ==
    /\ pc[p] = "livre"
    /\ e \notin DOMAIN carteira
    /\ carteira' = criar(carteira, e, ChaveDe[e])
    /\ dados' = [dados EXCEPT ![p] = [SemDados EXCEPT !.op = "criar_carteira",
                                                      !.endereco = e]]
    /\ Termina(p, [SemResultado EXCEPT !.tipo = "ok",
                       !.status = carteira'[e].status,
                       !.chave_privada = ChaveDe[e]])
    /\ UNCHANGED <<saldo_carteira, deposito_saque, conversao, transferencia, local>>

\* Mutant of bloquear: a wallet that is not ATIVA is reported as not found.
bloquear_so_ativa(p, e) ==
    /\ pc[p] = "livre"
    /\ dados' = [dados EXCEPT ![p] = [SemDados EXCEPT !.op = "bloquear",
                                                      !.endereco = e]]
    /\ IF e \in DOMAIN carteira /\ carteira[e].status = StatusInicial
       THEN /\ carteira' = atualizar_status(carteira, e, "BLOQUEADA")
            /\ Termina(p, [SemResultado EXCEPT !.tipo = "ok",
                               !.status = carteira'[e].status])
       ELSE /\ UNCHANGED carteira
            /\ Termina(p, Erro(CarteiraNaoEncontrada))
    /\ UNCHANGED <<saldo_carteira, deposito_saque, conversao, transferencia, local>>

\* bloquear: atualizar_status(endereco, "BLOQUEADA") and the re-read row.
bloquear(p, e) ==
    /\ pc[p] = "livre"
    /\ carteira' = atualizar_status(carteira, e, "BLOQUEADA")
    /\ dados' = [dados EXCEPT ![p] = [SemDados EXCEPT !.op = "bloquear",
                                                      !.endereco = e]]
    /\ IF e \in DOMAIN carteira'
       THEN Termina(p, [SemResultado EXCEPT !.tipo = "ok",
                            !.status = carteira'[e].status])
       ELSE Termina(p, Erro(CarteiraNaoEncontrada))
    /\ UNCHANGED <<saldo_carteira, deposito_saque, conversao, transferencia, local>>

\* depositar, up to realizar_deposito.
depositar(p, d) ==
    /\ Recebe(p, d)
    /\ d.op = "depositar"
    /\ LET id_moeda == buscar_id_moeda(d.codigo_moeda) IN
       IF id_moeda = 0
       THEN /\ Termina(p, Erro(MoedaInvalida))
            /\ UNCHANGED <<db, local>>
       ELSE /\ realizar_deposito(d.endereco, id_moeda, d.valor)
            /\ local' = [local EXCEPT ![p] = [SemLocal EXCEPT
                             !.id_moeda = id_moeda, !.id = Len(deposito_saque')]]
            /\ pc' = [pc EXCEPT ![p] = "depositar_recibo"]
            /\ UNCHANGED resultado

\* Mutant of depositar_recibo: the receipt carries the newest id of the table.
depositar_recibo_ultimo_id(p) ==
    /\ pc[p] = "depositar_recibo"
    /\ Termina(p, [SemResultado EXCEPT !.tipo = "ok", !.id = Len(deposito_saque),
                       !.valor = dados[p].valor, !.taxa = 0,
                       !.saldo_atual = buscar_saldo_especifico(saldo_carteira,
                                           dados[p].endereco, local[p].id_moeda)])
    /\ UNCHANGED <<db, dados, local>>

\* depositar, the balance read back and the receipt.
depositar_recibo(p) ==
    /\ pc[p] = "depositar_recibo"
    /\ Termina(p, [SemResultado EXCEPT !.tipo = "ok", !.id = local[p].id,
                       !.valor = dados[p].valor, !.taxa = 0,
                       !.saldo_atual = buscar_saldo_especifico(saldo_carteira,
                                           dados[p].endereco, local[p].id_moeda)])
    /\ UNCHANGED <<db, dados, local>>

\* The handler's result has been delivered; it is free for the next request.
retorna(p) ==
    /\ pc[p] = "fim"
    /\ pc' = [pc EXCEPT ![p] = "livre"]
    /\ dados' = [dados EXCEPT ![p] = SemDados]
    /\ local' = [local EXCEPT ![p] = SemLocal]
    /\ resultado' = [resultado EXCEPT ![p] = SemResultado]
    /\ UNCHANGED db

\* Mutant of sacar: a wallet that is not ATIVA may not withdraw.
sacar_so_ativa(p, d) ==
    /\ Recebe(p, d)
    /\ d.op = "sacar"
    /\ UNCHANGED db
    /\ LET id_moeda == buscar_id_moeda(d.codigo_moeda)
           taxa == taxa_valor(d.valor, TaxaSaquePercentual)
           saldo_atual == buscar_saldo_especifico(saldo_carteira, d.endereco, id_moeda)
       IN
       IF d.endereco \notin DOMAIN carteira
       THEN Termina(p, Erro(CarteiraNaoEncontrada)) /\ UNCHANGED local
       ELSE IF ~chave_confere(carteira[d.endereco], d.chave_privada)
       THEN Termina(p, Erro(ChaveInvalida)) /\ UNCHANGED local
       ELSE IF carteira[d.endereco].status # "ATIVA"
       THEN Termina(p, Erro(CarteiraNaoEncontrada)) /\ UNCHANGED local
       ELSE IF id_moeda = 0
       THEN Termina(p, Erro(MoedaInvalida)) /\ UNCHANGED local
       ELSE IF ~saldo_suficiente(saldo_atual, d.valor + taxa)
       THEN Termina(p, Erro(SaldoInsuficiente)) /\ UNCHANGED local
       ELSE /\ local' = [local EXCEPT ![p] = [SemLocal EXCEPT
                             !.id_moeda = id_moeda, !.saldo_atual = saldo_atual]]
            /\ pc' = [pc EXCEPT ![p] = "sacar_realizar"]
            /\ UNCHANGED resultado

\* Mutant of sacar: the currency is looked up before the key is verified.
sacar_moeda_antes(p, d) ==
    /\ Recebe(p, d)
    /\ d.op = "sacar"
    /\ UNCHANGED db
    /\ LET id_moeda == buscar_id_moeda(d.codigo_moeda)
           taxa == taxa_valor(d.valor, TaxaSaquePercentual)
           saldo_atual == buscar_saldo_especifico(saldo_carteira, d.endereco, id_moeda)
       IN
       IF d.endereco \notin DOMAIN carteira
       THEN Termina(p, Erro(CarteiraNaoEncontrada)) /\ UNCHANGED local
       ELSE IF id_moeda = 0
       THEN Termina(p, Erro(MoedaInvalida)) /\ UNCHANGED local
       ELSE IF ~chave_confere(carteira[d.endereco], d.chave_privada)
       THEN Termina(p, Erro(ChaveInvalida)) /\ UNCHANGED local
       ELSE IF ~saldo_suficiente(saldo_atual, d.valor + taxa)
       THEN Termina(p, Erro(SaldoInsuficiente)) /\ UNCHANGED local
       ELSE /\ local' = [local EXCEPT ![p] = [SemLocal EXCEPT
                             !.id_moeda = id_moeda, !.saldo_atual = saldo_atual]]
            /\ pc' = [pc EXCEPT ![p] = "sacar_realizar"]
            /\ UNCHANGED resultado

\* sacar, up to the balance check: wallet row, key, currency, balance.
sacar(p, d) ==
    /\ Recebe(p, d)
    /\ d.op = "sacar"
    /\ UNCHANGED db
    /\ LET id_moeda == buscar_id_moeda(d.codigo_moeda)
           taxa == taxa_valor(d.valor, TaxaSaquePercentual)
           saldo_atual == buscar_saldo_especifico(saldo_carteira, d.endereco, id_moeda)
       IN
       IF d.endereco \notin DOMAIN carteira
       THEN Termina(p, Erro(CarteiraNaoEncontrada)) /\ UNCHANGED local
       ELSE IF ~chave_confere(carteira[d.endereco], d.chave_privada)
       THEN Termina(p, Erro(ChaveInvalida)) /\ UNCHANGED local
       ELSE IF id_moeda = 0
       THEN Termina(p, Erro(MoedaInvalida)) /\ UNCHANGED local
       ELSE IF ~saldo_suficiente(saldo_atual, d.valor + taxa)
       THEN Termina(p, Erro(SaldoInsuficiente)) /\ UNCHANGED local
       ELSE /\ local' = [local EXCEPT ![p] = [SemLocal EXCEPT
                             !.id_moeda = id_moeda, !.saldo_atual = saldo_atual]]
            /\ pc' = [pc EXCEPT ![p] = "sacar_realizar"]
            /\ UNCHANGED resultado

\* Mutant of sacar_realizar: the balance is set to the value read at the
\* check, less the total.
sacar_realizar_valor_lido(p) ==
    /\ pc[p] = "sacar_realizar"
    /\ LET taxa == taxa_valor(dados[p].valor, TaxaSaquePercentual)
           chave == <<dados[p].endereco, local[p].id_moeda>>
       IN
       /\ deposito_saque' = Append(deposito_saque,
              [id |-> Len(deposito_saque) + 1, endereco |-> dados[p].endereco,
               id_moeda |-> local[p].id_moeda, tipo |-> "SAQUE",
               valor |-> dados[p].valor, taxa_valor |-> taxa])
       /\ saldo_carteira' =
              IF chave \in DOMAIN saldo_carteira
              THEN [saldo_carteira EXCEPT ![chave] =
                        local[p].saldo_atual - (dados[p].valor + taxa)]
              ELSE saldo_carteira
    /\ UNCHANGED <<carteira, conversao, transferencia>>
    /\ local' = [local EXCEPT ![p].id = Len(deposito_saque')]
    /\ pc' = [pc EXCEPT ![p] = "sacar_recibo"]
    /\ UNCHANGED <<dados, resultado>>

\* sacar, the call of realizar_saque.
sacar_realizar(p) ==
    /\ pc[p] = "sacar_realizar"
    /\ realizar_saque(dados[p].endereco, local[p].id_moeda, dados[p].valor,
                      taxa_valor(dados[p].valor, TaxaSaquePercentual))
    /\ local' = [local EXCEPT ![p].id = Len(deposito_saque')]
    /\ pc' = [pc EXCEPT ![p] = "sacar_recibo"]
    /\ UNCHANGED <<dados, resultado>>

\* sacar, the balance read back and the receipt.
sacar_recibo(p) ==
    /\ pc[p] = "sacar_recibo"
    /\ Termina(p, [SemResultado EXCEPT !.tipo = "ok", !.id = local[p].id,
                       !.valor = dados[p].valor,
                       !.taxa = taxa_valor(dados[p].valor, TaxaSaquePercentual),
                       !.saldo_atual = buscar_saldo_especifico(saldo_carteira,
                                           dados[p].endereco, local[p].id_moeda)])
    /\ UNCHANGED <<db, dados, local>>

\* converter, up to sending the quote request: wallet row, key, currencies.
converter(p, d) ==
    /\ Recebe(p, d)
    /\ d.op = "converter"
    /\ UNCHANGED db
    /\ LET id_origem == buscar_id_moeda(d.codigo_moeda)
           id_destino == buscar_id_moeda(d.moeda_destino)
       IN
       IF d.endereco \notin DOMAIN carteira
       THEN Termina(p, Erro(CarteiraNaoEncontrada)) /\ UNCHANGED local
       ELSE IF ~chave_confere(carteira[d.endereco], d.chave_privada)
       THEN Termina(p, Erro(ChaveInvalida)) /\ UNCHANGED local
       ELSE IF id_origem = 0 \/ id_destino = 0
       THEN Termina(p, Erro(MoedaInvalida)) /\ UNCHANGED local
       ELSE /\ local' = [local EXCEPT ![p] = [SemLocal EXCEPT
                             !.id_moeda = id_origem, !.id_destino = id_destino]]
            /\ pc' = [pc EXCEPT ![p] = "converter_cotacao"]
            /\ UNCHANGED resultado

\* Mutant of converter_sem_cotacao: the error of a status that is not 200
\* leaves the try block as it was raised.
converter_sem_cotacao_vaza(p, falha) ==
    /\ pc[p] = "converter_cotacao"
    /\ local' = [local EXCEPT ![p].resposta = falha]
    /\ Termina(p, Erro(IF falha = "status" THEN "Par nao disponivel na Coinbase."
                                           ELSE ErroCotacao))
    /\ UNCHANGED <<db, dados>>

\* converter, the quote request fails: whatever is raised inside the try
\* block (timeout, status, malformed payload) is caught by `except Exception`
\* and raised again as "Erro ao obter cotacao.".
converter_sem_cotacao(p, falha) ==
    /\ pc[p] = "converter_cotacao"
    /\ local' = [local EXCEPT ![p].resposta = falha]
    /\ Termina(p, Erro(ErroCotacao))
    /\ UNCHANGED <<db, dados>>

\* Mutant of converter_cotacao: the check uses the balance the handler held
\* when it sent the quote request.
converter_cotacao_saldo_anterior(p, cotacao) ==
    /\ pc[p] = "converter_cotacao"
    /\ UNCHANGED <<db, dados>>
    /\ LET taxa == taxa_valor(dados[p].valor, TaxaConversaoPercentual)
           saldo_origem == local[p].saldo_atual
       IN
       IF ~saldo_suficiente(saldo_origem, dados[p].valor + taxa)
       THEN Termina(p, Erro(SaldoInsuficiente)) /\ UNCHANGED local
       ELSE /\ local' = [local EXCEPT ![p].cotacao = cotacao,
                                      ![p].saldo_atual = saldo_origem]
            /\ pc' = [pc EXCEPT ![p] = "converter_realizar"]
            /\ UNCHANGED resultado

\* converter, the quote arrives; then the balance check.
converter_cotacao(p, cotacao) ==
    /\ pc[p] = "converter_cotacao"
    /\ UNCHANGED <<db, dados>>
    /\ LET taxa == taxa_valor(dados[p].valor, TaxaConversaoPercentual)
           saldo_origem == buscar_saldo_especifico(saldo_carteira,
                               dados[p].endereco, local[p].id_moeda)
       IN
       IF ~saldo_suficiente(saldo_origem, dados[p].valor + taxa)
       THEN Termina(p, Erro(SaldoInsuficiente)) /\ UNCHANGED local
       ELSE /\ local' = [local EXCEPT ![p].cotacao = cotacao,
                                      ![p].saldo_atual = saldo_origem]
            /\ pc' = [pc EXCEPT ![p] = "converter_realizar"]
            /\ UNCHANGED resultado

\* converter, the call of realizar_conversao and the receipt.
converter_realizar(p) ==
    /\ pc[p] = "converter_realizar"
    /\ LET taxa == taxa_valor(dados[p].valor, TaxaConversaoPercentual)
           recebido == valor_destino(dados[p].valor, local[p].cotacao)
       IN
       /\ realizar_conversao(dados[p].endereco, local[p].id_moeda,
              local[p].id_destino, dados[p].valor, recebido, taxa,
              TaxaConversaoPercentual, local[p].cotacao)
       /\ Termina(p, [SemResultado EXCEPT !.tipo = "ok", !.id = Len(conversao'),
                          !.valor = dados[p].valor, !.valor_recebido = recebido,
                          !.taxa = taxa, !.cotacao = local[p].cotacao])
    /\ UNCHANGED <<dados, local>>

\* Mutant of transferir: the currency is looked up before the destination.
transferir_moeda_antes(p, d) ==
    /\ Recebe(p, d)
    /\ d.op = "transferir"
    /\ UNCHANGED db
    /\ LET id_moeda == buscar_id_moeda(d.codigo_moeda) IN
       IF d.endereco \notin DOMAIN carteira
       THEN Termina(p, Erro(OrigemNaoEncontrada)) /\ UNCHANGED local
       ELSE IF ~chave_confere(carteira[d.endereco], d.chave_privada)
       THEN Termina(p, Erro(ChaveInvalida)) /\ UNCHANGED local
       ELSE IF propria_carteira(d.endereco, d.endereco_destino)
       THEN Termina(p, Erro(PropriaCarteira)) /\ UNCHANGED local
       ELSE IF id_moeda = 0
       THEN Termina(p, Erro(MoedaInvalida)) /\ UNCHANGED local
       ELSE IF d.endereco_destino \notin DOMAIN carteira
       THEN Termina(p, Erro(DestinoNaoEncontrado)) /\ UNCHANGED local
       ELSE IF carteira[d.endereco_destino].status # "ATIVA"
       THEN Termina(p, Erro(DestinoBloqueado)) /\ UNCHANGED local
       ELSE /\ local' = [local EXCEPT ![p] = [SemLocal EXCEPT !.id_moeda = id_moeda]]
            /\ pc' = [pc EXCEPT ![p] = "transferir_saldo"]
            /\ UNCHANGED resultado

\* transferir, up to the currency lookup: source row, key, self-transfer,
\* destination row and its status, currency.
transferir(p, d) ==
    /\ Recebe(p, d)
    /\ d.op = "transferir"
    /\ UNCHANGED db
    /\ LET id_moeda == buscar_id_moeda(d.codigo_moeda) IN
       IF d.endereco \notin DOMAIN carteira
       THEN Termina(p, Erro(OrigemNaoEncontrada)) /\ UNCHANGED local
       ELSE IF ~chave_confere(carteira[d.endereco], d.chave_privada)
       THEN Termina(p, Erro(ChaveInvalida)) /\ UNCHANGED local
       ELSE IF propria_carteira(d.endereco, d.endereco_destino)
       THEN Termina(p, Erro(PropriaCarteira)) /\ UNCHANGED local
       ELSE IF d.endereco_destino \notin DOMAIN carteira
       THEN Termina(p, Erro(DestinoNaoEncontrado)) /\ UNCHANGED local
       ELSE IF carteira[d.endereco_destino].status # "ATIVA"
       THEN Termina(p, Erro(DestinoBloqueado)) /\ UNCHANGED local
       ELSE IF id_moeda = 0
       THEN Termina(p, Erro(MoedaInvalida)) /\ UNCHANGED local
       ELSE /\ local' = [local EXCEPT ![p] = [SemLocal EXCEPT !.id_moeda = id_moeda]]
            /\ pc' = [pc EXCEPT ![p] = "transferir_saldo"]
            /\ UNCHANGED resultado

\* Mutant of transferir_saldo: the debit is applied before the check.
transferir_saldo_debita(p) ==
    /\ pc[p] = "transferir_saldo"
    /\ UNCHANGED dados
    /\ LET taxa == taxa_valor(dados[p].valor, TaxaTransferenciaPercentual)
           saldo_origem == buscar_saldo_especifico(saldo_carteira,
                               dados[p].endereco, local[p].id_moeda)
       IN
       IF ~saldo_suficiente(saldo_origem, dados[p].valor + taxa)
       THEN /\ saldo_carteira' = update_saldo(saldo_carteira, dados[p].endereco,
                                      local[p].id_moeda, dados[p].valor + taxa)
            /\ Termina(p, Erro(SaldoInsuficiente))
            /\ UNCHANGED <<carteira, deposito_saque, conversao, transferencia, local>>
       ELSE /\ local' = [local EXCEPT ![p].saldo_atual = saldo_origem]
            /\ pc' = [pc EXCEPT ![p] = "transferir_realizar"]
            /\ UNCHANGED <<db, resultado>>

\* transferir, the balance check.
transferir_saldo(p) ==
    /\ pc[p] = "transferir_saldo"
    /\ UNCHANGED <<db, dados>>
    /\ LET taxa == taxa_valor(dados[p].valor, TaxaTransferenciaPercentual)
           saldo_origem == buscar_saldo_especifico(saldo_carteira,
                               dados[p].endereco, local[p].id_moeda)
       IN
       IF ~saldo_suficiente(saldo_origem, dados[p].valor + taxa)
       THEN Termina(p, Erro(SaldoInsuficiente)) /\ UNCHANGED local
       ELSE /\ local' = [local EXCEPT ![p].saldo_atual = saldo_origem]
            /\ pc' = [pc EXCEPT ![p] = "transferir_realizar"]
            /\ UNCHANGED resultado

\* transferir, the call of realizar_transferencia and the receipt.
transferir_realizar(p) ==
    /\ pc[p] = "transferir_realizar"
    /\ LET taxa == taxa_valor(dados[p].valor, TaxaTransferenciaPercentual) IN
       /\ realizar_transferencia(dados[p].endereco, dados[p].endereco_destino,
              local[p].id_moeda, dados[p].valor, taxa)
       /\ Termina(p, [SemResultado EXCEPT !.tipo = "ok", !.id = Len(transferencia'),
                          !.valor = dados[p].valor, !.taxa = taxa])
    /\ UNCHANGED <<dados, local>>

\* ---------------------------------------------------------------- requests
Deposito(e, c, v) ==
    [SemDados EXCEPT !.op = "depositar", !.endereco = e, !.codigo_moeda = c,
                     !.valor = v]
Saque(e, c, v, k) ==
    [SemDados EXCEPT !.op = "sacar", !.endereco = e, !.codigo_moeda = c,
                     !.valor = v, !.chave_privada = k]
Conversao(e, c1, c2, v, k) ==
    [SemDados EXCEPT !.op = "converter", !.endereco = e, !.codigo_moeda = c1,
                     !.moeda_destino = c2, !.valor = v, !.chave_privada = k]
Transferencia(e1, e2, c, v, k) ==
    [SemDados EXCEPT !.op = "transferir", !.endereco = e1, !.endereco_destino = e2,
                     !.codigo_moeda = c, !.valor = v, !.chave_privada = k]

\* Concurrent handlers: well-formed requests of the wallets' owners.
PedidosDeposito == {Deposito(e, "BTC", 200) : e \in Enderecos}
PedidosSaque == {Saque(e, "BTC", 100, ChaveDe[e]) : e \in Enderecos}
PedidosConversao == {Conversao("w1", "BTC", "USD", 100, ChaveDe["w1"])}
PedidosTransferencia ==
    {Transferencia(e[1], e[2], "BTC", 100, ChaveDe[e[1]])
        : e \in {<<"w1", "w2">>, <<"w2", "w1">>}}

Next ==
    \E p \in Procs :
        \/ \E e \in Enderecos : criar_carteira(p, e)
        \/ \E e \in Enderecos : bloquear(p, e)
        \/ \E d \in PedidosDeposito : Cabe(MaxRegistros) /\ depositar(p, d)
        \/ depositar_recibo(p)
        \/ \E d \in PedidosSaque : Cabe(MaxRegistros) /\ sacar(p, d)
        \/ sacar_realizar(p)
        \/ sacar_recibo(p)
        \/ \E d \in PedidosConversao : Cabe(MaxRegistros) /\ converter(p, d)
        \/ \E f \in FalhasCotacao : converter_sem_cotacao(p, f)
        \/ \E c \in Cotacoes : converter_cotacao(p, c)
        \/ converter_realizar(p)
        \/ \E d \in PedidosTransferencia : Cabe(MaxRegistros) /\ transferir(p, d)
        \/ transferir_saldo(p)
        \/ transferir_realizar(p)
        \/ retorna(p)

Spec == Init /\ [][Next]_vars

\* One handler at a time: every request the API accepts, valid or not.
EntradasDeposito ==
    {Deposito(e, c, v) : e \in Enderecos, c \in Codigos, v \in Valores}
EntradasSaque ==
    {Saque(e, c, v, k)
        : e \in Enderecos, c \in Codigos, v \in ValoresDebito, k \in Chaves}
EntradasConversao ==
    {Conversao(e, c[1], c[2], v, k)
        : e \in Enderecos, c \in Pares, v \in ValoresDebito,
          k \in Chaves}
EntradasTransferencia ==
    {Transferencia(e[1], e[2], c, v, k)
        : e \in Enderecos \X Enderecos, c \in Codigos, v \in ValoresDebito,
          k \in Chaves}

NextSequencial ==
    \E p \in {"p1"} :
        \/ \E e \in Enderecos : criar_carteira(p, e)
        \/ \E e \in Enderecos : bloquear(p, e)
        \/ \E d \in EntradasDeposito : Cabe(MaxEntradas) /\ depositar(p, d)
        \/ depositar_recibo(p)
        \/ \E d \in EntradasSaque : Cabe(MaxEntradas) /\ sacar(p, d)
        \/ sacar_realizar(p)
        \/ sacar_recibo(p)
        \/ \E d \in EntradasConversao : Cabe(MaxEntradas) /\ converter(p, d)
        \/ \E f \in FalhasCotacao : converter_sem_cotacao(p, f)
        \/ \E c \in Cotacoes : converter_cotacao(p, c)
        \/ converter_realizar(p)
        \/ \E d \in EntradasTransferencia : Cabe(MaxEntradas) /\ transferir(p, d)
        \/ transferir_saldo(p)
        \/ transferir_realizar(p)
        \/ retorna(p)

SpecSequencial == Init /\ [][NextSequencial]_vars

\* ------------------------------------------------------------------ claims
Saldo(e, m) == buscar_saldo_especifico(saldo_carteira, e, m)
Sucesso(p) == pc[p] = "fim" /\ resultado[p].tipo = "ok"
Falha(p, mensagem) ==
    pc[p] = "fim" /\ resultado[p].tipo = "erro" /\ resultado[p].erro = mensagem

\* The steps that commit a write transaction of handler p.
DepositoEfetuado(p) == pc[p] = "livre" /\ pc'[p] = "depositar_recibo"
SaqueEfetuado(p) == pc[p] = "sacar_realizar" /\ pc'[p] = "sacar_recibo"
ConversaoEfetuada(p) == pc[p] = "converter_realizar" /\ pc'[p] = "fim"
TransferenciaEfetuada(p) == pc[p] = "transferir_realizar" /\ pc'[p] = "fim"

\* Every balance row but those of the keys in `menos` is what it was.
OutrosSaldosIguais(menos) ==
    /\ DOMAIN saldo_carteira \subseteq DOMAIN saldo_carteira'
    /\ \A k \in DOMAIN saldo_carteira' \ menos :
           k \in DOMAIN saldo_carteira /\ saldo_carteira'[k] = saldo_carteira[k]

\* C1: in every reachable state the balance of every (wallet, currency) pair
\* is >= 0.
C1_SaldoNaoNegativo == \A k \in DOMAIN saldo_carteira : saldo_carteira[k] >= 0

\* C4: a deposit of a > 0 into (w, c) raises balance(w, c) by exactly a (the
\* row is created at a if the pair had none), records one DEPOSITO movement
\* with fee 0, and leaves every other balance as it was.
C4_Deposito ==
    [][\A p \in Procs :
        (DepositoEfetuado(p) /\ dados'[p].valor > 0) =>
            LET e == dados'[p].endereco
                m == buscar_id_moeda(dados'[p].codigo_moeda)
                a == dados'[p].valor
            IN  /\ <<e, m>> \in DOMAIN saldo_carteira'
                /\ saldo_carteira'[<<e, m>>] = Saldo(e, m) + a
                /\ <<e, m>> \notin DOMAIN saldo_carteira => saldo_carteira'[<<e, m>>] = a
                /\ OutrosSaldosIguais({<<e, m>>})
                /\ deposito_saque' = Append(deposito_saque,
                       [id |-> Len(deposito_saque) + 1, endereco |-> e,
                        id_moeda |-> m, tipo |-> "DEPOSITO", valor |-> a,
                        taxa_valor |-> 0])
                /\ UNCHANGED <<carteira, conversao, transferencia>>]_vars

\* C4 witness: a deposit has just added to a balance row that already held
\* money.
C4_Witness ==
    \E p \in Procs :
        /\ pc[p] = "depositar_recibo"
        /\ dados[p].valor > 0
        /\ Saldo(dados[p].endereco, local[p].id_moeda) > dados[p].valor

\* C8: a wallet is ATIVA when it is created, its row is never removed, and
\* once it is BLOQUEADA no step makes it ATIVA again.
C8_StatusSoBloqueia ==
    [][\A e \in Enderecos :
        /\ (e \notin DOMAIN carteira /\ e \in DOMAIN carteira') =>
               carteira'[e].status = "ATIVA"
        /\ e \in DOMAIN carteira =>
               /\ e \in DOMAIN carteira'
               /\ carteira'[e].status \in {carteira[e].status, "BLOQUEADA"}]_vars

\* C8 witness: a blocked wallet is blocked again, and money reaches it.
C8_Witness ==
    \E p \in Procs, e \in Enderecos :
        /\ Sucesso(p) /\ dados[p].op = "bloquear" /\ dados[p].endereco = e
        /\ resultado[p].status = "BLOQUEADA"
        /\ \E q \in Procs : q # p /\ Sucesso(q) /\ dados[q].op = "bloquear"
                            /\ dados[q].endereco = e
        /\ Saldo(e, 1) > 0

SaldoDepois(e, m) == buscar_saldo_especifico(saldo_carteira', e, m)

\* Handler p takes a request of operation op in this step.
Inicia(p, op) == pc[p] = "livre" /\ pc'[p] # "livre" /\ dados'[p].op = op

\* Handler p raises in this step.
Levanta(p, mensagem) ==
    /\ pc[p] # "fim" /\ pc'[p] = "fim"
    /\ resultado'[p].tipo = "erro" /\ resultado'[p].erro = mensagem

\* The wallet of the request exists and the key sent is its own.
Autorizado(d) ==
    /\ d.endereco \in DOMAIN carteira
    /\ carteira[d.endereco].hash_chave_privada = sha256(d.chave_privada)

\* C2: of two withdrawals of one (wallet, currency) that made their decision
\* on the same balance, enough for either but not for both, only one
\* succeeds (the other fails with "Saldo insuficiente"), and the balance is
\* never overdrawn.
C2_SaquesConcorrentes ==
    \A p, q \in Procs :
        LET tp == dados[p].valor + taxa_valor(dados[p].valor, TaxaSaquePercentual)
            tq == dados[q].valor + taxa_valor(dados[q].valor, TaxaSaquePercentual)
            lido == local[p].saldo_atual
        IN
        (/\ p # q
         /\ dados[p].op = "sacar" /\ dados[q].op = "sacar"
         /\ dados[p].endereco = dados[q].endereco
         /\ dados[p].codigo_moeda = dados[q].codigo_moeda
         /\ local[q].saldo_atual = lido
         /\ lido >= tp /\ lido >= tq /\ lido < tp + tq)
        => /\ ~(Sucesso(p) /\ Sucesso(q))
           /\ Saldo(dados[p].endereco, buscar_id_moeda(dados[p].codigo_moeda)) >= 0

\* C3: a withdrawal of a by the wallet's owner in a known currency succeeds
\* iff balance(w, c) >= a + fee; when it succeeds the balance goes down by
\* exactly a + fee, and when it fails nothing changes.
C3_Saque ==
    [][\A p \in Procs :
        LET d == dados'[p]
            m == buscar_id_moeda(d.codigo_moeda)
            total == d.valor + taxa_valor(d.valor, TaxaSaquePercentual)
        IN
        /\ (Inicia(p, "sacar") /\ Autorizado(d) /\ m # 0) =>
               /\ pc'[p] = "sacar_realizar" <=> Saldo(d.endereco, m) >= total
               /\ pc'[p] # "sacar_realizar" =>
                      Levanta(p, SaldoInsuficiente) /\ UNCHANGED db
        /\ SaqueEfetuado(p) =>
               SaldoDepois(d.endereco, m) = Saldo(d.endereco, m) - total]_vars

\* The steps of a handler that write: after them the operation does not fail.
Escrita(p) ==
    \/ pc'[p] \in {"depositar_recibo", "sacar_recibo"}
    \/ pc'[p] = "fim" /\ resultado'[p].tipo = "ok"

\* C5: an operation that fails has changed no table at any of its steps; an
\* operation that succeeds writes in one step only, and that step appends its
\* one ledger row together with its balance updates: for a transfer and for a
\* conversion between two currencies, the debit of the source row (when the
\* table holds one) and the credit of the destination row.
C5_TudoOuNada ==
    [][\A p \in Procs :
        /\ (pc'[p] # pc[p] /\ db' # db) => Escrita(p)
        /\ (pc[p] \in {"depositar_recibo", "sacar_recibo"} /\ pc'[p] # pc[p]) =>
               /\ pc'[p] = "fim" /\ resultado'[p].tipo = "ok"
               /\ UNCHANGED db
        /\ saldo_carteira' # saldo_carteira => Registros' = Registros + 1
        /\ Registros' # Registros =>
               /\ Registros' = Registros + 1
               /\ Len(deposito_saque') >= Len(deposito_saque)
               /\ Len(conversao') >= Len(conversao)
               /\ Len(transferencia') >= Len(transferencia)
               /\ UNCHANGED carteira
        /\ TransferenciaEfetuada(p) =>
               LET d == dados[p]
                   m == local[p].id_moeda
                   t == taxa_valor(d.valor, TaxaTransferenciaPercentual)
               IN  /\ Len(transferencia') = Len(transferencia) + 1
                   /\ <<d.endereco, m>> \in DOMAIN saldo_carteira =>
                          SaldoDepois(d.endereco, m) = Saldo(d.endereco, m) - (d.valor + t)
                   /\ SaldoDepois(d.endereco_destino, m) =
                          Saldo(d.endereco_destino, m) + d.valor
        /\ (ConversaoEfetuada(p) /\ local[p].id_moeda # local[p].id_destino) =>
               LET d == dados[p]
                   t == taxa_valor(d.valor, TaxaConversaoPercentual)
               IN  /\ Len(conversao') = Len(conversao) + 1
                   /\ <<d.endereco, local[p].id_moeda>> \in DOMAIN saldo_carteira =>
                          SaldoDepois(d.endereco, local[p].id_moeda) =
                              Saldo(d.endereco, local[p].id_moeda) - (d.valor + t)
                   /\ SaldoDepois(d.endereco, local[p].id_destino) =
                          Saldo(d.endereco, local[p].id_destino)
                              + valor_destino(d.valor, local[p].cotacao)]_vars

\* C5 witness: a transfer has failed for lack of funds while its source
\* holds money, and the tables hold what they held before it.
C5_Witness ==
    \E p \in Procs :
        /\ Falha(p, SaldoInsuficiente) /\ dados[p].op = "transferir"
        /\ dados[p].valor > 0
        /\ Saldo(dados[p].endereco, buscar_id_moeda(dados[p].codigo_moeda)) > 0
        /\ transferencia = << >>

\* C6: a transfer by the source wallet's owner to another wallet that is
\* BLOQUEADA fails with "destino bloqueada" and changes nothing, and no
\* transfer commits while its destination is BLOQUEADA.
C6_DestinoBloqueado ==
    [][\A p \in Procs :
        /\ (/\ Inicia(p, "transferir") /\ Autorizado(dados'[p])
            /\ dados'[p].endereco # dados'[p].endereco_destino
            /\ dados'[p].endereco_destino \in DOMAIN carteira
            /\ carteira[dados'[p].endereco_destino].status = "BLOQUEADA") =>
               Levanta(p, DestinoBloqueado) /\ UNCHANGED db
        /\ TransferenciaEfetuada(p) =>
               carteira[dados[p].endereco_destino].status = "ATIVA"]_vars

\* C7 as stated: a transfer whose source equals its destination always fails
\* with "propria carteira" and changes nothing.
C7_Original ==
    [][\A p \in Procs :
        (Inicia(p, "transferir")
         /\ dados'[p].endereco = dados'[p].endereco_destino) =>
            Levanta(p, PropriaCarteira) /\ UNCHANGED db]_vars

\* C7 amended: a transfer whose source equals its destination changes
\* nothing and fails: with "origem nao encontrada" if the wallet does not
\* exist, else with "chave invalida" if the key is not the wallet's, else
\* with "propria carteira", whatever the balance.
C7_PropriaCarteira ==
    [][\A p \in Procs :
        (Inicia(p, "transferir")
         /\ dados'[p].endereco = dados'[p].endereco_destino) =>
            /\ UNCHANGED db
            /\ IF dados'[p].endereco \notin DOMAIN carteira
               THEN Levanta(p, OrigemNaoEncontrada)
               ELSE IF ~Autorizado(dados'[p])
               THEN Levanta(p, ChaveInvalida)
               ELSE Levanta(p, PropriaCarteira)]_vars

\* C7 witness: the owner's self-transfer was refused although the balance
\* covers the amount and the fee.
C7_Witness ==
    \E p \in Procs :
        /\ Falha(p, PropriaCarteira)
        /\ dados[p].valor > 0
        /\ Saldo(dados[p].endereco, buscar_id_moeda(dados[p].codigo_moeda)) >=
               dados[p].valor + taxa_valor(dados[p].valor, TaxaTransferenciaPercentual)

\* C9: a conversion of a from currency s to another currency d at rate r
\* commits only if balance(w, s) >= a + fee; it lowers balance(w, s) by
\* exactly a + fee, raises balance(w, d) by exactly a * r, appends one
\* conversion row carrying a, a * r, the fee, the fee rate and r, and changes
\* no other balance.
C9_Conversao ==
    [][\A p \in Procs :
        (ConversaoEfetuada(p) /\ local[p].id_moeda # local[p].id_destino) =>
            LET d == dados[p]
                s == local[p].id_moeda
                dest == local[p].id_destino
                r == local[p].cotacao
                t == taxa_valor(d.valor, TaxaConversaoPercentual)
            IN  /\ Saldo(d.endereco, s) >= d.valor + t
                /\ SaldoDepois(d.endereco, s) = Saldo(d.endereco, s) - (d.valor + t)
                /\ SaldoDepois(d.endereco, dest) =
                       Saldo(d.endereco, dest) + valor_destino(d.valor, r)
                /\ OutrosSaldosIguais({<<d.endereco, s>>, <<d.endereco, dest>>})
                /\ conversao' = Append(conversao,
                       [id |-> Len(conversao) + 1, endereco |-> d.endereco,
                        id_moeda_origem |-> s, id_moeda_destino |-> dest,
                        valor_origem |-> d.valor,
                        valor_destino |-> valor_destino(d.valor, r),
                        taxa_percentual |-> TaxaConversaoPercentual,
                        taxa_valor |-> t, cotacao_utilizada |-> r])]_vars

\* Sum of the balances of currency m over the wallets es.
RECURSIVE TotalMoeda(_, _, _)
TotalMoeda(saldos, es, m) ==
    IF es = {} THEN 0
    ELSE LET e == CHOOSE x \in es : TRUE
         IN  buscar_saldo_especifico(saldos, e, m) + TotalMoeda(saldos, es \ {e}, m)

\* C10: a transfer of a of currency c from S to D lowers balance(S, c) by
\* exactly a + fee and raises balance(D, c) by exactly a, so the total of c
\* over all wallets goes down by exactly the fee; no other balance changes.
C10_Transferencia ==
    [][\A p \in Procs :
        TransferenciaEfetuada(p) =>
            LET d == dados[p]
                m == local[p].id_moeda
                t == taxa_valor(d.valor, TaxaTransferenciaPercentual)
            IN  /\ SaldoDepois(d.endereco, m) = Saldo(d.endereco, m) - (d.valor + t)
                /\ SaldoDepois(d.endereco_destino, m) =
                       Saldo(d.endereco_destino, m) + d.valor
                /\ TotalMoeda(saldo_carteira', Enderecos, m) =
                       TotalMoeda(saldo_carteira, Enderecos, m) - t
                /\ OutrosSaldosIguais({<<d.endereco, m>>, <<d.endereco_destino, m>>})]_vars

\* C11: a deposit of an amount <= 0 is rejected: it raises, appends no
\* movement row and leaves every balance as it was.
C11_DepositoPositivo ==
    [][\A p \in Procs :
        (Inicia(p, "depositar") /\ dados'[p].valor <= 0) =>
            /\ pc'[p] = "fim" /\ resultado'[p].tipo = "erro"
            /\ UNCHANGED db]_vars

\* The operations that debit the wallet of the request.
Debita(op) == op \in {"sacar", "converter", "transferir"}

\* C12: a withdrawal, conversion or transfer on an existing wallet with a key
\* that is not that wallet's own, the valid key of another wallet included,
\* fails with "chave invalida" and changes no table; a debit is committed
\* only for a request that carries the key of the wallet it debits.
C12_ChaveDaCarteira ==
    [][\A p \in Procs :
        /\ (/\ pc[p] = "livre" /\ pc'[p] # "livre" /\ Debita(dados'[p].op)
            /\ dados'[p].endereco \in DOMAIN carteira
            /\ dados'[p].chave_privada # ChaveDe[dados'[p].endereco]) =>
               Levanta(p, ChaveInvalida) /\ UNCHANGED db
        /\ (SaqueEfetuado(p) \/ ConversaoEfetuada(p) \/ TransferenciaEfetuada(p)) =>
               dados[p].chave_privada = ChaveDe[dados[p].endereco]]_vars

\* C12 witness: a debit of a funded wallet was refused because it carried
\* the valid key of another existing wallet.
C12_Witness ==
    \E p \in Procs, e \in Enderecos :
        /\ Falha(p, ChaveInvalida) /\ Debita(dados[p].op)
        /\ e # dados[p].endereco /\ e \in DOMAIN carteira
        /\ dados[p].chave_privada = ChaveDe[e]
        /\ dados[p].valor > 0
        /\ Saldo(dados[p].endereco, buscar_id_moeda(dados[p].codigo_moeda)) >=
               dados[p].valor + taxa_valor(dados[p].valor, TaxaConversaoPercentual)

\* Handler p commits its debit in this step.
DebitoEfetuado(p) ==
    SaqueEfetuado(p) \/ ConversaoEfetuada(p) \/ TransferenciaEfetuada(p)

\* Handler q has committed the debit of the request it is serving.
JaDebitou(q) ==
    \/ pc[q] = "sacar_recibo"
    \/ Sucesso(q) /\ Debita(dados[q].op)

\* C13: debits of one (wallet, currency) balance are serialized: when a
\* handler commits a debit after another handler committed one on the same
\* balance, it made its decision on a balance read after that commit, never
\* on the very balance the earlier one decided on.
C13_OrdemSerial ==
    [][\A p, q \in Procs :
        (/\ p # q /\ DebitoEfetuado(p) /\ JaDebitou(q)
         /\ dados[p].endereco = dados[q].endereco
         /\ local[p].id_moeda = local[q].id_moeda) =>
            local[p].saldo_atual # local[q].saldo_atual]_vars

\* Ledger `depois` is ledger `antes`, with rows appended or none.
SoAcrescenta(antes, depois) ==
    /\ Len(depois) >= Len(antes)
    /\ SubSeq(depois, 1, Len(antes)) = antes

\* The ids of a ledger are distinct and grow in insertion order.
IdsCrescentes(tabela) ==
    \A i, j \in 1..Len(tabela) : i < j => tabela[i].id < tabela[j].id

\* The row of a ledger that carries id n, as a set.
LinhaDeId(tabela, n) == {tabela[i] : i \in {j \in 1..Len(tabela) : tabela[j].id = n}}

\* The receipt of handler p names the one row its request inserted.
ReciboNomeiaLinha(p) ==
    LET d == dados[p]
        n == resultado[p].id
    IN  CASE d.op \in {"depositar", "sacar"} ->
                 \E r \in LinhaDeId(deposito_saque, n) :
                     /\ LinhaDeId(deposito_saque, n) = {r}
                     /\ r.endereco = d.endereco /\ r.valor = d.valor
                     /\ r.tipo = (IF d.op = "sacar" THEN "SAQUE" ELSE "DEPOSITO")
                     /\ r.taxa_valor = resultado[p].taxa
          [] d.op = "converter" ->
                 \E r \in LinhaDeId(conversao, n) :
                     /\ LinhaDeId(conversao, n) = {r}
                     /\ r.endereco = d.endereco /\ r.valor_origem = d.valor
                     /\ r.cotacao_utilizada = resultado[p].cotacao
          [] d.op = "transferir" ->
                 \E r \in LinhaDeId(transferencia, n) :
                     /\ LinhaDeId(transferencia, n) = {r}
                     /\ r.endereco_origem = d.endereco
                     /\ r.endereco_destino = d.endereco_destino
                     /\ r.valor = d.valor
          [] OTHER -> TRUE

\* C14: the three ledgers only grow by appended rows, the ids of each ledger
\* are distinct and increase in insertion order, a step that commits an
\* operation appends exactly one row, to that operation's ledger, and the id
\* of a receipt is the id of the row its own request inserted, whatever other
\* handlers inserted meanwhile.
C14_LivrosSoCrescem ==
    /\ [](/\ IdsCrescentes(deposito_saque)
          /\ IdsCrescentes(conversao)
          /\ IdsCrescentes(transferencia)
          /\ \A p \in Procs : Sucesso(p) => ReciboNomeiaLinha(p))
    /\ [][/\ SoAcrescenta(deposito_saque, deposito_saque')
          /\ SoAcrescenta(conversao, conversao')
          /\ SoAcrescenta(transferencia, transferencia')
          /\ \A p \in Procs :
                /\ (DepositoEfetuado(p) \/ SaqueEfetuado(p)) =>
                       /\ Len(deposito_saque') = Len(deposito_saque) + 1
                       /\ UNCHANGED <<conversao, transferencia>>
                /\ ConversaoEfetuada(p) =>
                       /\ Len(conversao') = Len(conversao) + 1
                       /\ UNCHANGED <<deposito_saque, transferencia>>
                /\ TransferenciaEfetuada(p) =>
                       /\ Len(transferencia') = Len(transferencia) + 1
                       /\ UNCHANGED <<deposito_saque, conversao>>]_vars

\* C14 witness: a handler holds the receipt of its movement while the other
\* handler, serving another wallet, has inserted a later row in that ledger.
C14_Witness ==
    \E p, q \in Procs :
        /\ Sucesso(p) /\ dados[p].op \in {"depositar", "sacar"}
        /\ pc[q] \in {"depositar_recibo", "sacar_recibo"}
        /\ dados[q].endereco # dados[p].endereco
        /\ resultado[p].id < local[q].id
        /\ local[q].id = Len(deposito_saque)

\* C15: bloquear of an existing wallet leaves it BLOQUEADA whatever its
\* status was and returns the wallet with that status; of an unknown address
\* it fails with "carteira nao encontrada" and changes nothing; in both cases
\* no other wallet, no balance and no ledger changes.
C15_Bloquear ==
    [][\A p \in Procs :
        Inicia(p, "bloquear") =>
            LET e == dados'[p].endereco IN
            /\ pc'[p] = "fim"
            /\ UNCHANGED <<saldo_carteira, deposito_saque, conversao, transferencia>>
            /\ IF e \in DOMAIN carteira
               THEN /\ carteira' = [carteira EXCEPT ![e].status = "BLOQUEADA"]
                    /\ resultado'[p].tipo = "ok"
                    /\ resultado'[p].status = "BLOQUEADA"
               ELSE /\ Levanta(p, CarteiraNaoEncontrada)
                    /\ UNCHANGED carteira]_vars

\* C15 witness: a wallet that holds money was blocked twice, both times with
\* success, while the other address is still unknown.
C15_Witness ==
    \E p, q \in Procs, e \in Enderecos :
        /\ p # q
        /\ Sucesso(p) /\ dados[p].op = "bloquear" /\ dados[p].endereco = e
        /\ Sucesso(q) /\ dados[q].op = "bloquear" /\ dados[q].endereco = e
        /\ carteira[e].status = "BLOQUEADA"
        /\ deposito_saque # << >> /\ Saldo(e, 1) > 0
        /\ DOMAIN carteira = {e}

\* C16: when the quote request of a conversion fails, in whichever way, the
\* conversion fails with "Erro ao obter cotacao." and with no other error,
\* and it has appended no conversion row and changed no balance.
C16_SemCotacao ==
    [][\A p \in Procs :
        /\ Inicia(p, "converter") => UNCHANGED db
        /\ (pc[p] = "converter_cotacao" /\ local'[p].resposta \in FalhasCotacao) =>
               Levanta(p, ErroCotacao) /\ UNCHANGED db]_vars

\* C16 witness: the conversion of a funded wallet's owner failed because the
\* quote service answered with a status that is not 200.
C16_Witness ==
    \E p \in Procs :
        /\ Falha(p, ErroCotacao) /\ dados[p].op = "converter"
        /\ local[p].resposta = "status"
        /\ dados[p].valor > 0
        /\ Saldo(dados[p].endereco, local[p].id_moeda) >=
               dados[p].valor + taxa_valor(dados[p].valor, TaxaConversaoPercentual)
        /\ conversao = << >>

\* C17: a withdrawal reports the first failure in the order wallet unknown,
\* key not the wallet's, currency unknown, balance below amount + fee, also
\* when several of them hold at once; it writes nothing while it checks, and
\* it debits only after all four checks have passed.
C17_OrdemDoSaque ==
    [][\A p \in Procs :
        /\ Inicia(p, "sacar") =>
               LET d == dados'[p]
                   m == buscar_id_moeda(d.codigo_moeda)
                   total == d.valor + taxa_valor(d.valor, TaxaSaquePercentual)
               IN  /\ UNCHANGED db
                   /\ IF d.endereco \notin DOMAIN carteira
                      THEN Levanta(p, CarteiraNaoEncontrada)
                      ELSE IF d.chave_privada # ChaveDe[d.endereco]
                      THEN Levanta(p, ChaveInvalida)
                      ELSE IF d.codigo_moeda \notin DOMAIN Moeda
                      THEN Levanta(p, MoedaInvalida)
                      ELSE IF Saldo(d.endereco, m) < total
                      THEN Levanta(p, SaldoInsuficiente)
                      ELSE pc'[p] = "sacar_realizar"
        /\ SaqueEfetuado(p) =>
               LET d == dados[p] IN
               /\ d.endereco \in DOMAIN carteira
               /\ d.chave_privada = ChaveDe[d.endereco]
               /\ d.codigo_moeda \in DOMAIN Moeda
               /\ local[p].saldo_atual >=
                      d.valor + taxa_valor(d.valor, TaxaSaquePercentual)]_vars

\* C17 witness: a withdrawal with a key that is not the wallet's, in an
\* unknown currency, was refused for the key.
C17_Witness ==
    \E p \in Procs :
        /\ Falha(p, ChaveInvalida) /\ dados[p].op = "sacar"
        /\ dados[p].endereco \in DOMAIN carteira
        /\ dados[p].codigo_moeda \notin DOMAIN Moeda
        /\ dados[p].valor > 0
        /\ Saldo(dados[p].endereco, 1) > 0

\* C18: a transfer reports the first failure in the order source unknown,
\* key not the source's, source = destination, destination unknown,
\* destination not ATIVA, currency unknown, source balance below amount +
\* fee, also when several of them hold at once.
C18_OrdemDaTransferencia ==
    [][\A p \in Procs :
        /\ Inicia(p, "transferir") =>
               LET d == dados'[p] IN
               IF d.endereco \notin DOMAIN carteira
               THEN Levanta(p, OrigemNaoEncontrada)
               ELSE IF d.chave_privada # ChaveDe[d.endereco]
               THEN Levanta(p, ChaveInvalida)
               ELSE IF d.endereco = d.endereco_destino
               THEN Levanta(p, PropriaCarteira)
               ELSE IF d.endereco_destino \notin DOMAIN carteira
               THEN Levanta(p, DestinoNaoEncontrado)
               ELSE IF carteira[d.endereco_destino].status # "ATIVA"
               THEN Levanta(p, DestinoBloqueado)
               ELSE IF d.codigo_moeda \notin DOMAIN Moeda
               THEN Levanta(p, MoedaInvalida)
               ELSE pc'[p] = "transferir_saldo"
        /\ (pc[p] = "transferir_saldo" /\ pc'[p] # pc[p]) =>
               LET d == dados[p]
                   total == d.valor + taxa_valor(d.valor, TaxaTransferenciaPercentual)
               IN  IF Saldo(d.endereco, buscar_id_moeda(d.codigo_moeda)) < total
                   THEN Levanta(p, SaldoInsuficiente)
                   ELSE pc'[p] = "transferir_realizar"]_vars

\* C18 witness: a transfer to a blocked wallet, in an unknown currency, from
\* a source without funds, was refused for the destination's status.
C18_Witness ==
    \E p \in Procs :
        /\ Falha(p, DestinoBloqueado) /\ dados[p].op = "transferir"
        /\ dados[p].codigo_moeda \notin DOMAIN Moeda
        /\ dados[p].valor > 0
        /\ carteira[dados[p].endereco_destino].status = "BLOQUEADA"
        /\ Saldo(dados[p].endereco, 1) = 0

\* Handler q, if it stands before a step, can take it.
PodeAvancar(q) ==
    /\ pc[q] = "livre" => \A d \in PedidosDeposito : ENABLED depositar(q, d)
    /\ pc[q] = "depositar_recibo" => ENABLED depositar_recibo(q)
    /\ pc[q] = "sacar_realizar" => ENABLED sacar_realizar(q)
    /\ pc[q] = "sacar_recibo" => ENABLED sacar_recibo(q)
    /\ pc[q] = "converter_realizar" => ENABLED converter_realizar(q)
    /\ pc[q] = "transferir_saldo" => ENABLED transferir_saldo(q)
    /\ pc[q] = "transferir_realizar" => ENABLED transferir_realizar(q)

\* C19: a conversion reads no balance and writes nothing until its quote has
\* arrived: the balance its check uses is the one stored when the quote
\* returns, the write follows with that quote, and while the quote request
\* is in flight no other handler is kept from its next step.
C19_CotacaoAntesDoSaldo ==
    /\ [](\A p, q \in Procs :
            (p # q /\ pc[p] = "converter_cotacao") => PodeAvancar(q))
    /\ [][\A p \in Procs :
            /\ Inicia(p, "converter") =>
                   /\ UNCHANGED db
                   /\ pc'[p] = "converter_cotacao" =>
                          local'[p].saldo_atual = 0 /\ local'[p].cotacao = 0
            /\ (pc[p] = "converter_cotacao" /\ pc'[p] # pc[p]
                /\ local'[p].resposta \notin FalhasCotacao) =>
                   LET d == dados[p]
                       total == d.valor + taxa_valor(d.valor, TaxaConversaoPercentual)
                       agora == Saldo(d.endereco, local[p].id_moeda)
                   IN  /\ UNCHANGED db
                       /\ IF agora < total
                          THEN Levanta(p, SaldoInsuficiente)
                          ELSE /\ pc'[p] = "converter_realizar"
                               /\ local'[p].saldo_atual = agora
                               /\ local'[p].cotacao \in Cotacoes
            /\ ConversaoEfetuada(p) => local[p].cotacao \in Cotacoes]_vars

\* C19 witness: while a conversion of a wallet waits for its quote, the
\* other handler has committed a deposit into that wallet, and the
\* conversion's check is still to come.
C19_Witness ==
    \E p, q \in Procs :
        /\ pc[p] = "converter_cotacao" /\ local[p].saldo_atual = 0
        /\ pc[q] = "depositar_recibo"
        /\ dados[q].endereco = dados[p].endereco
        /\ local[q].id_moeda = local[p].id_moeda
        /\ Saldo(dados[p].endereco, local[p].id_moeda) = dados[q].valor

\* The wallet of request d exists and is BLOQUEADA.
Bloqueada(d) ==
    d.endereco \in DOMAIN carteira /\ carteira[d.endereco].status = "BLOQUEADA"

\* C20: for a wallet that is BLOQUEADA a deposit, a withdrawal, a conversion
\* and a transfer out of it pass the checks, fail and commit as the code's
\* checks on key, currency, destination and balance decide, the wallet's own
\* status playing no part: none of them is refused or held back for it.
C20_StatusIgnorado ==
    /\ [](\A p \in Procs :
            Bloqueada(dados[p]) =>
                /\ pc[p] = "sacar_realizar" => ENABLED sacar_realizar(p)
                /\ pc[p] = "converter_realizar" => ENABLED converter_realizar(p)
                /\ pc[p] = "transferir_realizar" => ENABLED transferir_realizar(p))
    /\ [][\A p \in Procs :
            LET d == dados'[p]
                e == d.endereco
                m == buscar_id_moeda(d.codigo_moeda)
            IN
            Bloqueada(d) =>
                /\ (Inicia(p, "depositar") /\ m # 0) =>
                       /\ DepositoEfetuado(p)
                       /\ SaldoDepois(e, m) = Saldo(e, m) + d.valor
                /\ (Inicia(p, "sacar") /\ Autorizado(d) /\ m # 0) =>
                       IF Saldo(e, m) >= d.valor + taxa_valor(d.valor, TaxaSaquePercentual)
                       THEN pc'[p] = "sacar_realizar"
                       ELSE Levanta(p, SaldoInsuficiente)
                /\ (/\ Inicia(p, "converter") /\ Autorizado(d) /\ m # 0
                    /\ buscar_id_moeda(d.moeda_destino) # 0) =>
                       pc'[p] = "converter_cotacao"
                /\ (/\ Inicia(p, "transferir") /\ Autorizado(d) /\ m # 0
                    /\ d.endereco_destino \in DOMAIN carteira \ {e}
                    /\ carteira[d.endereco_destino].status = "ATIVA") =>
                       pc'[p] = "transferir_saldo"
                /\ (pc[p] \notin {"livre", "fim"} /\ pc'[p] = "fim"
                    /\ resultado'[p].tipo = "erro") =>
                       resultado'[p].erro \in {SaldoInsuficiente, ErroCotacao}]_vars

\* C20 witness: the owner of a blocked wallet has withdrawn money from it.
C20_Witness ==
    \E p \in Procs :
        /\ Sucesso(p) /\ dados[p].op = "sacar" /\ Bloqueada(dados[p])
        /\ dados[p].valor > 0
        /\ resultado[p].saldo_atual = Saldo(dados[p].endereco, local[p].id_moeda)
        /\ Len(deposito_saque) = 2

\* Sum of f[1] .. f[n].
RECURSIVE SomaDe(_, _)
SomaDe(f, n) == IF n = 0 THEN 0 ELSE f[n] + SomaDe(f, n - 1)

\* What a row of each ledger says about the balance of (e, m).
DoMovimento(r, e, m) ==
    IF r.endereco = e /\ r.id_moeda = m
    THEN IF r.tipo = "DEPOSITO" THEN r.valor ELSE 0 - (r.valor + r.taxa_valor)
    ELSE 0
DaConversao(r, e, m) ==
    (IF r.endereco = e /\ r.id_moeda_origem = m
     THEN 0 - (r.valor_origem + r.taxa_valor) ELSE 0)
    + (IF r.endereco = e /\ r.id_moeda_destino = m THEN r.valor_destino ELSE 0)
DaTransferencia(r, e, m) ==
    (IF r.endereco_origem = e /\ r.id_moeda = m
     THEN 0 - (r.valor + r.taxa_valor) ELSE 0)
    + (IF r.endereco_destino = e /\ r.id_moeda = m THEN r.valor ELSE 0)

\* The balance of (e, m) derived from the first n movements.
MovimentosAte(e, m, n) ==
    SomaDe([i \in 1..n |-> DoMovimento(deposito_saque[i], e, m)], n)

\* The balance of (e, m) derived from the three ledgers.
SaldoDerivado(e, m) ==
    MovimentosAte(e, m, Len(deposito_saque))
    + SomaDe([i \in 1..Len(conversao) |-> DaConversao(conversao[i], e, m)],
             Len(conversao))
    + SomaDe([i \in 1..Len(transferencia) |->
                 DaTransferencia(transferencia[i], e, m)], Len(transferencia))

\* The ids of the currencies.
IdsMoeda == {Moeda[c] : c \in DOMAIN Moeda}

\* C21: in every reachable state the balance of every (wallet, currency)
\* pair, 0 where the pair has no row, is the balance derived from the
\* ledgers: deposits, less withdrawals and their fees, less conversions out
\* and their fees, plus conversions in, plus transfers received, less
\* transfers sent and their fees.
C21_SaldoDerivado ==
    \A e \in Enderecos, m \in IdsMoeda : Saldo(e, m) = SaldoDerivado(e, m)

\* C22: no committed write of a balance row is lost: every row of
\* saldo_carteira holds the sum of the credits committed to it less the sum
\* of the debits committed to it, whatever the order in which concurrent
\* handlers read and wrote it.
C22_NenhumaEscritaPerdida ==
    \A k \in DOMAIN saldo_carteira : saldo_carteira[k] = SaldoDerivado(k[1], k[2])

\* C22 witness: two handlers have withdrawn from one balance row after both
\* read the same balance, and the row has been debited twice.
C22_Witness ==
    \E p, q \in Procs :
        /\ p # q
        /\ pc[p] = "sacar_recibo" /\ pc[q] = "sacar_recibo"
        /\ dados[p].endereco = dados[q].endereco
        /\ local[p].id_moeda = local[q].id_moeda
        /\ local[p].saldo_atual = local[q].saldo_atual
        /\ <<dados[p].endereco, local[p].id_moeda>> \in DOMAIN saldo_carteira
        /\ Saldo(dados[p].endereco, local[p].id_moeda) =
               local[p].saldo_atual
               - (dados[p].valor + taxa_valor(dados[p].valor, TaxaSaquePercentual))
               - (dados[q].valor + taxa_valor(dados[q].valor, TaxaSaquePercentual))

\* C23: the saldo_atual of the receipt of a deposit or of a withdrawal is the
\* balance that operation's own commit produced.  While the pair's only
\* writes are movements, that balance is the one derived from the movements
\* up to and including the receipt's own row.
C23_SaldoDoRecibo ==
    \A p \in Procs :
        (/\ Sucesso(p) /\ dados[p].op \in {"depositar", "sacar"}
         /\ conversao = << >> /\ transferencia = << >>) =>
            resultado[p].saldo_atual =
                MovimentosAte(dados[p].endereco,
                              buscar_id_moeda(dados[p].codigo_moeda),
                              resultado[p].id)

====
